---- MODULE Spec2Model ----
(***************************************************************************)
(* Model of KrakenWebSocketClient (utils/websocket_client.py): one caller  *)
(* driving one session object, the connection it owns and the remote       *)
(* service that answers on that connection.                                *)
(*                                                                         *)
(* JSON values are strings: "absent" is a key that is not in the object,   *)
(* "true"/"false" are the booleans.  An Optional[int] argument is a        *)
(* sequence of length at most one (<<>> is None).  Time is counted in      *)
(* ticks from the start of the running call.                               *)
(***************************************************************************)
EXTENDS Naturals, Sequences, FiniteSets, Bags

\* ---------------------------------------------------------------- bounds
MaxTimeout == 2     \* timeouts are at most MaxTimeout ticks; self.timeout is that
MaxCount == 2       \* receive_messages(count) with count in 0..MaxCount
MaxConns == 2       \* connections of one session that are open at a time
MaxPending == 2     \* control requests the remote has not answered yet
MaxDisc == 2        \* consecutive disconnect calls that are told apart
MaxPrice == 3       \* prices of a candle or of a price list are in 1..MaxPrice
MaxLen == 3         \* price lists have at most MaxLen entries
MaxLevels == 2      \* a side of an order book has at most MaxLevels levels,
                    \* and the depth asked for is at most that
MaxWindow == 2      \* the verification window after unsubscribe lasts MaxWindow
                    \* ticks, a receive within it at most MaxWindow - 1
MaxUnexpected == 2  \* unexpected messages of one window that are told apart

\* -------------------------------------------------------------- messages
Absent == "absent"
Channels == {"ticker", "book"}
Methods == {"subscribe", "unsubscribe"}
Errors == {"EQuery:Unknown symbol"}
Types == {"snapshot", "update"}

Msg(method, channel, success, error, rchannel) ==
    [method |-> method, channel |-> channel, success |-> success,
     error |-> error, rchannel |-> rchannel, type |-> Absent]

\* no message: the value of a local that holds none
NoMsg == Msg("-", "-", "-", "-", "-")

Heartbeat == Msg(Absent, "heartbeat", Absent, Absent, Absent)
Status == Msg(Absent, "status", Absent, Absent, Absent)
Data(c, t) == [Msg(Absent, c, Absent, Absent, Absent) EXCEPT !.type = t]
DataMsgs == {Data(c, t) : c \in Channels, t \in Types}

\* the arguments subscribe and unsubscribe are called with: a channel name
\* (a real one or the empty one), a list of symbols, and keyword options
ChannelArgs == {"ticker", ""}
SymbolArgs == {<<>>, <<"BTC/USD">>}
NoOptions == [k \in {} |-> ""]
OptionArgs == {NoOptions} \cup {[k \in {"depth"} |-> v] : v \in {"None", "0", "", "10"}}

\* no request: the value of the local "request" before it is built
NoRequest == [method |-> "-", params |-> NoOptions]

\* a control request as the remote sees it
Request(method, ch) == [method |-> method, channel |-> ch]

\* what the remote may answer to the control request r: accepted (echoing the
\* channel), rejected with or without an error text, or an answer that carries
\* no success flag at all
AcksFor(r) ==
    {Msg(r.method, Absent, "true", Absent, r.channel)}
      \cup {Msg(r.method, Absent, "false", e, Absent) : e \in Errors \cup {Absent}}
      \cup {Msg(r.method, Absent, Absent, Absent, Absent)}

\* ---------------------------------------------------------------- state
VARIABLES
    ws,                 \* self.ws: 0 is None, c > 0 the connection in place c
    self_timeout,       \* self.timeout
    self_messages,      \* self.messages: the list made by __init__
    nconn,              \* places taken by connections so far
    closed,             \* closed[c]: close() calls made on connection c
    pending,            \* bag of the requests sent on the connection that the
                        \* remote has not answered yet
    remote_subs,        \* the channels the remote streams on the connection
    in_with,            \* the caller is inside a with-block on the session
    raising,            \* the exception propagating in the caller, or "none"
    consec_disc,        \* disconnect calls since the last other call (capped)
    pc,                 \* position of the running call, "idle" between calls
    op,                 \* the running (or last) call
    channel,            \* its channel argument
    count,              \* its count argument
    symbol,             \* its symbol argument
    options,            \* its keyword options
    request,            \* subscribe/unsubscribe: the request handed to ws.send
    effective_timeout,  \* its effective_timeout
    elapsed,            \* time.time() - start_time, read now
    recv_timeout,       \* timeout the blocked recv() runs under
    recv_wait,          \* time the blocked recv() has been waiting
    messages,           \* receive_messages: the local list
    data_read,          \* the data messages receive_messages has read
    noise_read,         \* it has read a message it does not hand to the caller
    wait_data,          \* _wait_for_method has read a data message
    failure,            \* the exception a receive of the call raised, or "none"
    stale,              \* a request of the same method was unanswered at send
    result,             \* how the last call ended
    sock_timeout,       \* self.ws.gettimeout(): the timeout of the connection
                        \* the session holds (0 while it holds none)
    original_timeout,   \* receive_message: its local original_timeout
    timeout,            \* the timeout argument of receive_message, and of
                        \* receive_messages until its loop has started
    timeout_before,     \* the connection's timeout when the running (or last)
                        \* receiving call started
    test,               \* the program that drives the session, if one does
    tpc,                \* its position
    verdict,            \* how it ended: "passed", "failed", or its exit status
    since_start,        \* verify step: time.time() - start_time, read now
    unexpected_messages,\* verify step: its list unexpected_messages
    record_count,       \* record_messages: its count argument
    recorder_messages,  \* record_messages: its list messages
    ack_file,           \* record_messages: what the acknowledgment file holds
    messages_file,      \* record_messages: what the messages file holds
    fn,                 \* the helper function applied, if one is
    arg,                \* its arguments
    out                 \* what it returned or raised

vars == <<ws, self_timeout, self_messages, nconn, closed, pending, remote_subs, in_with, raising,
          consec_disc, pc, op, channel, count, symbol, options, request,
          effective_timeout, elapsed,
          recv_timeout, recv_wait, messages, data_read, noise_read, wait_data,
          failure, stale, result, sock_timeout, original_timeout, timeout,
          timeout_before, test, tpc, verdict, since_start, unexpected_messages,
          record_count, recorder_messages, ack_file, messages_file, fn, arg, out>>

conn_vars == <<ws, nconn, closed, pending, remote_subs>>
sock_vars == <<sock_timeout, original_timeout>>

\* the state of a program that drives the session, and of a helper function
\* applied on its own; the client's operations leave both alone
harness_vars == <<test, tpc, verdict, since_start, unexpected_messages,
                  record_count, recorder_messages, ack_file, messages_file>>
pure_vars == <<fn, arg, out>>
outer_vars == <<harness_vars, pure_vars>>

\* the state of the session, its connection and its running call
client_vars == <<ws, self_timeout, self_messages, nconn, closed, pending, remote_subs,
                 in_with, raising, consec_disc, pc, op, channel, count, symbol, options,
                 request, effective_timeout, elapsed, recv_timeout, recv_wait, messages,
                 data_read, noise_read, wait_data, failure, stale, result, sock_timeout,
                 original_timeout, timeout, timeout_before>>

\* how a call ended: kind is "return" or the exception raised; ack and list are
\* the value returned, text the exception's text, on the message (if any) whose
\* receipt ended the call
Result(kind, ack, list, text, on) ==
    [kind |-> kind, ack |-> ack, list |-> list, text |-> text, on |-> on]
NoResult == Result("none", NoMsg, <<>>, "", NoMsg)
Returned(ack, list, on) == Result("return", ack, list, "", on)
Raised(kind, text, on) == Result(kind, NoMsg, <<>>, text, on)

\* what a helper function gave: kind is "return" or the exception raised,
\* value the value returned, text the exception's text, at the index it names
Out(kind, value, text, at) == [kind |-> kind, value |-> value, text |-> text, at |-> at]
NoOut == Out("none", "-", "", 0)

\* the session after __init__, before any call
ClientInit ==
    /\ ws = 0
    /\ self_timeout = MaxTimeout
    /\ self_messages = <<>>
    /\ nconn = 0
    /\ closed = <<>>
    /\ pending = EmptyBag
    /\ remote_subs = {}
    /\ in_with = FALSE
    /\ raising = "none"
    /\ consec_disc = 0
    /\ pc = "idle"
    /\ op = "none"
    /\ channel = "-"
    /\ count = 0
    /\ symbol = <<>>
    /\ options = NoOptions
    /\ request = NoRequest
    /\ effective_timeout = 0
    /\ elapsed = 0
    /\ recv_timeout = 0
    /\ recv_wait = 0
    /\ messages = <<>>
    /\ data_read = <<>>
    /\ noise_read = FALSE
    /\ wait_data = FALSE
    /\ failure = "none"
    /\ stale = FALSE
    /\ result = NoResult
    /\ sock_timeout = 0
    /\ original_timeout = 0
    /\ timeout = <<>>
    /\ timeout_before = 0

\* no driving program
\* no file written: a file holds the one value dumped into it
NoFile == <<>>
NoHarness ==
    /\ test = "none"
    /\ tpc = "-"
    /\ verdict = "none"
    /\ since_start = 0
    /\ unexpected_messages = <<>>
    /\ record_count = 0
    /\ recorder_messages = <<>>
    /\ ack_file = NoFile
    /\ messages_file = NoFile

\* no helper function applied
NoPure ==
    /\ fn = "none"
    /\ arg = <<>>
    /\ out = NoOut

Init == ClientInit /\ NoHarness /\ NoPure

\* ------------------------------------------------------ the pure pieces
\* truth value of dict.get("success"): None (absent) and False are falsy
Truthy(v) == v = "true"

\* a default taken for None only
timeout_unless_none(t, default) == IF t = <<>> THEN default ELSE t[1]

\* "timeout or self.timeout": None and 0 both fall back to self.timeout
timeout_or_default(t, default) ==
    IF t = <<>> \/ t[1] = 0 THEN default ELSE t[1]

\* the deadline test of both loops
deadline_passed(el, eff) == el > eff

\* a loop that hands the whole timeout to every receive
remaining_full(eff, el) == eff

\* remaining = effective_timeout - elapsed
remaining(eff, el) == eff - el

\* a wait that takes any method response
matches_any_method(msg, method) == msg.method # Absent

\* _wait_for_method: msg.get("method") == method
matches_method(msg, method) == msg.method = method

\* a check that rejects on success == False only
ack_not_false(ack) == ack.success # "false"

\* subscribe: "if not ack.get('success')" is the rejection test
ack_accepted(ack) == Truthy(ack.success)

\* ack.get("error", "Unknown error")
error_detail(ack) == IF ack.error = Absent THEN "Unknown error" ELSE ack.error

\* f"Subscription failed: {error}"
rejection_text(ack) == "Subscription failed: " \o error_detail(ack)

\* a filter that forgets the method responses
is_filtered_channels_only(msg) == msg.channel \in {"heartbeat", "status"}

\* receive_messages: the three "continue" tests
is_filtered(msg) ==
    \/ msg.channel = "heartbeat"
    \/ msg.channel = "status"
    \/ msg.method \in {"subscribe", "unsubscribe"}

\* an update that leaves out the options whose value is falsy
update_truthy(params, opts) ==
    [k \in DOMAIN params \cup {o \in DOMAIN opts : opts[o] \notin {"None", "0", ""}}
       |-> IF k \in DOMAIN opts THEN opts[k] ELSE params[k]]

\* params.update(options): every option key is set to its given value
update(params, opts) ==
    [k \in DOMAIN params \cup DOMAIN opts
       |-> IF k \in DOMAIN opts THEN opts[k] ELSE params[k]]

\* the request subscribe and unsubscribe build
build_request(method, ch, sym, opts) ==
    [method |-> method,
     params |-> update([k \in {"channel", "symbol"}
                          |-> IF k = "channel" THEN ch ELSE sym], opts)]

\* the inbound messages told apart by their two tags: no method tag, one of
\* the two control methods, or another method; no channel tag, heartbeat,
\* status, or a data channel
TaggedMsgs ==
    {Msg(m, c, Absent, Absent, Absent) :
       m \in {Absent, "pong"} \cup Methods,
       c \in {Absent, "heartbeat", "status", "ticker"}}

\* receive_messages: what the chain of tests does with a message, the first
\* test that matches deciding
rm_class(msg) ==
    IF msg.channel = "heartbeat" \/ msg.channel = "status" THEN "heartbeat/status"
    ELSE IF msg.method \in {"subscribe", "unsubscribe"} THEN "acknowledgment"
    ELSE "data"

\* subscribe and unsubscribe: a wait for one of the two methods takes the
\* message as its acknowledgment
taken_as_ack(msg) == \E m \in Methods : matches_method(msg, m)

\* the classes the session treats a message as, over its two readers
classes(msg) ==
    {rm_class(msg)} \cup (IF taken_as_ack(msg) THEN {"acknowledgment"} ELSE {})

\* a list that grows at the front
prepend(msgs, msg) == <<msg>> \o msgs

\* messages.append(msg)
append(msgs, msg) == Append(msgs, msg)

\* an except-branch that always returns what it has
keeps_partial_always(msgs) == TRUE

\* receive_messages, except-branch: "if len(messages) > 0: break", else raise
keeps_partial(msgs) == Len(msgs) > 0

\* ------------------------------------------------------ the connection
\* the channels the remote streams once it has answered the request r by a:
\* an accepted subscribe starts the channel's stream, an accepted unsubscribe
\* stops it, and what the remote sends after its answer is read after it
remote_after(subs, r, a) ==
    IF a.success # "true" THEN subs
    ELSE IF r.method = "subscribe" THEN subs \cup ({r.channel} \cap Channels)
    ELSE subs \ {r.channel}

\* what recv() can return now, with what is then left unanswered and what the
\* remote streams from then on: a heartbeat or a status message at any time, a
\* data message of a channel the remote streams, and the answer to any control
\* request not answered yet
Arrivals ==
    {<<m, pending, remote_subs>> :
        m \in {Heartbeat, Status} \cup {Data(c, t) : c \in remote_subs, t \in Types}}
      \cup UNION {{<<a, pending (-) SetToBag({r}), remote_after(remote_subs, r, a)>> :
                      a \in AcksFor(r)} : r \in BagToSet(pending)}

\* the failures of a receive that are no timeout: a payload that is not JSON,
\* and a connection the other side or the network has cut
ReadFailureKinds == {"JSONDecodeError", "WebSocketConnectionClosedException"}

\* how recv() + json.loads can fail now: one of these, and the socket timeout
\* once the wait has lasted recv_timeout
RecvFailures ==
    ReadFailureKinds
      \cup (IF recv_wait >= recv_timeout THEN {"WebSocketTimeoutException"} ELSE {})

\* ------------------------------------------------------------ the caller
\* the caller is between two calls and no exception is propagating
Ready == pc = "idle" /\ raising = "none"

req_locals == <<symbol, options, request>>

\* a call starts: its arguments are bound and its locals are fresh
Begin(o, ch, n) ==
    /\ op' = o
    /\ channel' = ch
    /\ count' = n
    /\ messages' = <<>>
    /\ data_read' = <<>>
    /\ noise_read' = FALSE
    /\ wait_data' = FALSE
    /\ failure' = "none"
    /\ consec_disc' = IF o = "disconnect" /\ consec_disc < MaxDisc
                        THEN consec_disc + 1 ELSE 0
    /\ timeout_before' = IF o \in Methods \cup {"receive_message", "receive_messages"}
                           THEN sock_timeout ELSE 0

\* the running call ends with res; its clock and its timeout argument go out
\* of scope
Finish(res) ==
    /\ pc' = "idle"
    /\ result' = res
    /\ raising' = IF res.kind = "return" THEN "none" ELSE res.kind
    /\ symbol' = <<>>
    /\ options' = NoOptions
    /\ request' = NoRequest
    /\ effective_timeout' = 0
    /\ elapsed' = 0
    /\ recv_timeout' = 0
    /\ recv_wait' = 0
    /\ timeout' = <<>>

\* the running call goes on at position p, past the use of its timeout
\* argument
Goto(p) ==
    /\ pc' = p
    /\ timeout' = <<>>
    /\ UNCHANGED <<result, raising, req_locals>>

\* the call that just started goes on at position p
Start(p) ==
    /\ pc' = p
    /\ result' = NoResult
    /\ UNCHANGED raising

ReturnedNone == Returned(NoMsg, <<>>, NoMsg)

\* what a call without the connection test runs into
NotConnectedAttributeError ==
    Raised("AttributeError", "'NoneType' object has no attribute 'send'", NoMsg)

\* raise RuntimeError("Not connected. Call connect() first.")
NotConnected ==
    Raised("RuntimeError", "Not connected. Call connect() first.", NoMsg)

\* receive_messages has read the message m from the connection
Read(m) ==
    /\ data_read' = IF m \in DataMsgs THEN Append(data_read, m) ELSE data_read
    /\ noise_read' = (noise_read \/ m \notin DataMsgs)

call_args == <<op, channel, count, timeout_before>>

\* a receive that leaves the connection's timeout as the call set it
finally_skipped(original, applied) == applied

\* receive_message, finally: self.ws.settimeout(original_timeout)
finally_settimeout(original, applied) == original

\* receive_message ends, by return or by exception: the finally clause runs
\* and the local goes out of scope
Restore ==
    /\ sock_timeout' = finally_settimeout(original_timeout, sock_timeout)
    /\ original_timeout' = 0

\* receive_message, "if timeout is not None: self.ws.settimeout(timeout)": the
\* timeout recv() runs under
settimeout_if_given(t, current) == IF t # <<>> THEN t[1] ELSE current

\* receive_message(timeout=t) up to recv(): the connection's timeout is
\* remembered and the argument, if one is given, put in its place
Apply(t) ==
    /\ original_timeout' = sock_timeout
    /\ sock_timeout' = settimeout_if_given(t, sock_timeout)
    /\ recv_timeout' = settimeout_if_given(t, sock_timeout)
session_vars == <<self_timeout, self_messages, in_with>>

\* ------------------------------------------------- connection lifecycle
\* the places whose connection is closed; nothing refers to such a connection
FreePlaces == {c \in 1..nconn : closed[c] > 0}

\* a connect that closes the connection the session holds before it opens
\* the new one
create_connection_closing_old ==
    /\ nconn < MaxConns
    /\ nconn' = nconn + 1
    /\ ws' = nconn + 1
    /\ closed' = Append(IF ws # 0 THEN [closed EXCEPT ![ws] = @ + 1] ELSE closed, 0)
    /\ pending' = EmptyBag
    /\ remote_subs' = {}
    /\ sock_timeout' = self_timeout

\* websocket.create_connection(url, timeout=self.timeout): a new connection,
\* nothing in flight on it.  It takes the place of a closed connection if
\* there is one
create_connection ==
    /\ IF FreePlaces # {}
         THEN LET c == CHOOSE f \in FreePlaces : \A g \in FreePlaces : f <= g
              IN  /\ ws' = c
                  /\ closed' = [closed EXCEPT ![c] = 0]
                  /\ nconn' = nconn
         ELSE /\ nconn < MaxConns
              /\ nconn' = nconn + 1
              /\ ws' = nconn + 1
              /\ closed' = Append(closed, 0)
    /\ pending' = EmptyBag
    /\ remote_subs' = {}
    /\ sock_timeout' = self_timeout

\* disconnect() without its assignment of None to self.ws
disconnect_keeps_handle ==
    /\ IF ws # 0
         THEN /\ closed' = [closed EXCEPT ![ws] = @ + 1]
              /\ pending' = EmptyBag
              /\ remote_subs' = {}
              /\ sock_timeout' = 0
         ELSE UNCHANGED <<closed, pending, remote_subs, sock_timeout>>
    /\ UNCHANGED <<ws, nconn>>

\* disconnect(): close the connection if there is one, and forget it; what
\* was in flight on a closed connection is gone
disconnect ==
    /\ IF ws # 0
         THEN /\ closed' = [closed EXCEPT ![ws] = @ + 1]
              /\ ws' = 0
              /\ pending' = EmptyBag
              /\ remote_subs' = {}
              /\ sock_timeout' = 0
         ELSE UNCHANGED <<ws, closed, pending, remote_subs, sock_timeout>>
    /\ UNCHANGED nconn

\* __exit__ returning True
exit_suppresses_all == TRUE

\* the value __exit__ returns: True would suppress the exception
exit_suppresses == FALSE

Connect ==
    /\ Ready
    /\ Begin("connect", "-", 0)
    /\ create_connection
    /\ Finish(ReturnedNone)
    /\ stale' = FALSE
    /\ UNCHANGED <<session_vars, original_timeout, outer_vars>>

Disconnect ==
    /\ Ready
    /\ consec_disc < MaxDisc
    /\ Begin("disconnect", "-", 0)
    /\ disconnect
    /\ Finish(ReturnedNone)
    /\ stale' = FALSE
    /\ UNCHANGED <<session_vars, original_timeout, outer_vars>>

\* with KrakenWebSocketClient(...) as client:  __enter__ connects
enter_with ==
    /\ Ready
    /\ ~in_with
    /\ Begin("__enter__", "-", 0)
    /\ create_connection
    /\ Finish(ReturnedNone)
    /\ in_with' = TRUE
    /\ stale' = FALSE
    /\ UNCHANGED <<self_timeout, self_messages, original_timeout>>

Enter == enter_with /\ UNCHANGED outer_vars

\* the with-block ends, normally or by the exception that is propagating:
\* __exit__ disconnects and its return value decides about the exception
exit_with ==
    /\ pc = "idle"
    /\ in_with
    /\ Begin("__exit__", "-", 0)
    /\ disconnect
    /\ in_with' = FALSE
    /\ result' = ReturnedNone
    /\ raising' = IF exit_suppresses THEN "none" ELSE raising
    /\ stale' = FALSE
    /\ UNCHANGED <<self_timeout, self_messages, pc, effective_timeout, elapsed, recv_timeout,
                   recv_wait, req_locals, original_timeout, timeout>>

Exit == exit_with /\ UNCHANGED outer_vars

\* an assert of the caller fails
AssertFail ==
    /\ Ready
    /\ in_with
    /\ raising' = "AssertionError"
    /\ UNCHANGED <<consec_disc, pc, messages, data_read, noise_read, wait_data, failure, stale,
                   result,
                   effective_timeout, elapsed, recv_timeout, recv_wait, req_locals>>
    /\ UNCHANGED <<session_vars, conn_vars, call_args, sock_vars, timeout, outer_vars>>

\* a try/except of the caller handles the propagating exception
Catch ==
    /\ pc = "idle"
    /\ raising # "none"
    /\ raising' = "none"
    /\ UNCHANGED <<consec_disc, pc, messages, data_read, noise_read, wait_data, failure, stale,
                   result,
                   effective_timeout, elapsed, recv_timeout, recv_wait, req_locals>>
    /\ UNCHANGED <<session_vars, conn_vars, call_args, sock_vars, timeout, outer_vars>>

\* ------------------------------------------- subscribe and unsubscribe
\* the part of subscribe/unsubscribe up to ws.send: the connection test, and
\* the request built from the arguments
begin_request(method, ch, sym, opts) ==
    /\ Ready
    /\ Begin(method, ch, 0)
    /\ IF ws = 0
         THEN Finish(NotConnected)
         ELSE /\ BagCardinality(pending) < MaxPending
              /\ symbol' = sym
              /\ options' = opts
              /\ request' = build_request(method, ch, sym, opts)
              /\ Start("send")
              /\ timeout' = <<>>
              /\ UNCHANGED <<effective_timeout, elapsed, recv_timeout, recv_wait>>
    /\ stale' = FALSE
    /\ UNCHANGED <<session_vars, conn_vars, sock_vars>>

Subscribe ==
    \E ch \in ChannelArgs, sym \in SymbolArgs, opts \in OptionArgs :
      begin_request("subscribe", ch, sym, opts) /\ UNCHANGED outer_vars

Unsubscribe ==
    \E ch \in ChannelArgs, sym \in SymbolArgs, opts \in OptionArgs :
      begin_request("unsubscribe", ch, sym, opts) /\ UNCHANGED outer_vars

\* the request as the remote reads it off the wire
on_wire(req) == Request(req.method, req.params["channel"])

\* a send that puts the request on the wire twice
SendRequestTwice ==
    /\ pc = "send"
    /\ pending' = pending (+) SetToBag({on_wire(request)})
                           (+) SetToBag({on_wire(request)})
    /\ stale' = TRUE
    /\ effective_timeout' = timeout_or_default(<<>>, self_timeout)
    /\ symbol' = <<>>
    /\ options' = NoOptions
    /\ request' = NoRequest
    /\ pc' = "wait_check"
    /\ UNCHANGED <<ws, nconn, closed, remote_subs, raising, result, consec_disc, messages,
                   data_read, noise_read, wait_data, failure, elapsed, recv_timeout, recv_wait>>
    /\ UNCHANGED <<session_vars, call_args, sock_vars, timeout, outer_vars>>

\* self.ws.send(json.dumps(request)), then _wait_for_method starts its clock.
\* The request has gone out: it and the arguments it was built from are not
\* read again
SendRequest ==
    /\ pc = "send"
    /\ pending' = pending (+) SetToBag({on_wire(request)})
    /\ stale' = (\E r \in BagToSet(pending) : r.method = op)
    /\ effective_timeout' = timeout_or_default(<<>>, self_timeout)
    /\ symbol' = <<>>
    /\ options' = NoOptions
    /\ request' = NoRequest
    /\ pc' = "wait_check"
    /\ UNCHANGED <<ws, nconn, closed, remote_subs, raising, result, consec_disc, messages,
                   data_read, noise_read, wait_data, failure, elapsed, recv_timeout, recv_wait>>
    /\ UNCHANGED <<session_vars, call_args, sock_vars, timeout, outer_vars>>

\* _wait_for_method, top of the loop: the deadline test, then the receive
WaitCheck ==
    /\ pc = "wait_check"
    /\ IF deadline_passed(elapsed, effective_timeout)
         THEN /\ Finish(Raised("TimeoutError", "Timeout waiting for method", NoMsg))
              /\ UNCHANGED sock_vars
         ELSE /\ Apply(<<remaining(effective_timeout, elapsed)>>)
              /\ recv_wait' = 0
              /\ Goto("wait_recv")
              /\ UNCHANGED <<effective_timeout, elapsed>>
    /\ UNCHANGED <<consec_disc, messages, data_read, noise_read, wait_data, failure, stale>>
    /\ UNCHANGED <<session_vars, conn_vars, call_args, outer_vars>>

\* what subscribe does with the method response
subscribe_outcome(ack) ==
    IF ack_accepted(ack) THEN Returned(ack, <<>>, ack)
                         ELSE Raised("ValueError", rejection_text(ack), ack)

\* what unsubscribe does with the method response: it returns it
unsubscribe_outcome(ack) == Returned(ack, <<>>, ack)

\* _wait_for_method: a message was received; the matching one ends the call
WaitRecv ==
    /\ pc = "wait_recv"
    /\ \E a \in Arrivals :
         /\ pending' = a[2]
         /\ remote_subs' = a[3]
         /\ noise_read' = (noise_read \/ a[1].method # op)
         /\ wait_data' = (wait_data \/ a[1] \in DataMsgs)
         /\ IF matches_method(a[1], op)
              THEN Finish(IF op = "subscribe" THEN subscribe_outcome(a[1])
                                              ELSE unsubscribe_outcome(a[1]))
              ELSE /\ Goto("wait_check")
                   /\ recv_timeout' = 0
                   /\ recv_wait' = 0
                   /\ UNCHANGED <<effective_timeout, elapsed>>
    /\ Restore
    /\ UNCHANGED <<ws, nconn, closed, consec_disc, messages, data_read, failure,
                   stale>>
    /\ UNCHANGED <<session_vars, call_args, outer_vars>>

\* _wait_for_method: the receive failed; nothing catches it
WaitRecvFail ==
    /\ pc = "wait_recv"
    /\ \E e \in RecvFailures :
         /\ failure' = e
         /\ Finish(Raised(e, "", NoMsg))
    /\ Restore
    /\ UNCHANGED <<consec_disc, messages, data_read, noise_read, wait_data, stale>>
    /\ UNCHANGED <<session_vars, conn_vars, call_args, outer_vars>>

\* ------------------------------------------------------ receive_message
\* the timeout arguments a caller passes: None, or a number of ticks
TimeoutArgs == {<<>>} \cup {<<n>> : n \in 0..MaxTimeout}

\* receive_message(timeout=t) called by the caller, up to recv(): None keeps
\* the timeout the connection has, any number (0 too) replaces it
receive_message(t) ==
    /\ Ready
    /\ Begin("receive_message", "-", 0)
    /\ IF ws = 0
         THEN /\ Finish(NotConnected)
              /\ UNCHANGED sock_vars
         ELSE /\ Apply(t)
              /\ timeout' = t
              /\ Start("msg_recv")
              /\ UNCHANGED <<effective_timeout, elapsed, recv_wait, req_locals>>
    /\ stale' = FALSE
    /\ UNCHANGED <<session_vars, conn_vars>>

ReceiveMessage == \E t \in TimeoutArgs : receive_message(t) /\ UNCHANGED outer_vars

\* a receive_message that hands out data messages only
receive_message_outcome_data_only(msg) ==
    IF is_filtered(msg) THEN Raised("WebSocketTimeoutException", "", msg)
                        ELSE Returned(msg, <<>>, msg)

\* receive_message: "return message", whatever the message is
receive_message_outcome(msg) == Returned(msg, <<>>, msg)

\* recv() delivered a message
MsgRecv ==
    /\ pc = "msg_recv"
    /\ \E a \in Arrivals :
         /\ pending' = a[2]
         /\ remote_subs' = a[3]
         /\ Finish(receive_message_outcome(a[1]))
    /\ Restore
    /\ UNCHANGED <<ws, nconn, closed, consec_disc, messages, data_read,
                   noise_read, wait_data, failure, stale>>
    /\ UNCHANGED <<session_vars, call_args, outer_vars>>

MsgRecvFail ==
    /\ pc = "msg_recv"
    /\ \E e \in RecvFailures :
         /\ failure' = e
         /\ Finish(Raised(e, "", NoMsg))
    /\ Restore
    /\ UNCHANGED <<consec_disc, messages, data_read, noise_read, wait_data, stale>>
    /\ UNCHANGED <<session_vars, conn_vars, call_args, outer_vars>>

\* ----------------------------------------------------- receive_messages
\* receive_messages(count, timeout) up to the first test of the while loop.
\* On a session without a connection nothing blocks: the first
\* receive_message raises at once and the except-branch decides
ReceiveMessages ==
    /\ Ready
    /\ \E n \in 0..MaxCount, t \in TimeoutArgs :
         /\ Begin("receive_messages", "-", n)
         /\ IF n = 0
              THEN Finish(Returned(NoMsg, <<>>, NoMsg))
              ELSE IF ws = 0
              THEN Finish(IF keeps_partial(<<>>)
                            THEN Returned(NoMsg, <<>>, NoMsg)
                            ELSE NotConnected)
              ELSE /\ effective_timeout' = timeout_or_default(t, self_timeout)
                   /\ timeout' = t
                   /\ Start("rm_check")
                   /\ UNCHANGED <<elapsed, recv_timeout, recv_wait, req_locals>>
    /\ stale' = FALSE
    /\ UNCHANGED <<session_vars, conn_vars, sock_vars, outer_vars>>

\* top of the loop body: the deadline test, then receive_message(remaining)
RmCheck ==
    /\ pc = "rm_check"
    /\ IF deadline_passed(elapsed, effective_timeout)
         THEN /\ Finish(Raised("TimeoutError", "Timeout receiving messages", NoMsg))
              /\ UNCHANGED sock_vars
         ELSE /\ Apply(<<remaining(effective_timeout, elapsed)>>)
              /\ recv_wait' = 0
              /\ Goto("rm_recv")
              /\ UNCHANGED <<effective_timeout, elapsed>>
    /\ UNCHANGED <<consec_disc, messages, data_read, noise_read, wait_data, failure, stale>>
    /\ UNCHANGED <<session_vars, conn_vars, call_args, outer_vars>>

\* a message was received: filtered out, or appended; the loop ends when
\* count messages are in the list
RmRecv ==
    /\ pc = "rm_recv"
    /\ \E a \in Arrivals :
         /\ Read(a[1])
         /\ pending' = a[2]
         /\ remote_subs' = a[3]
         /\ messages' = IF is_filtered(a[1]) THEN messages
                                             ELSE append(messages, a[1])
         /\ IF Len(messages') < count
              THEN /\ Goto("rm_check")
                   /\ recv_timeout' = 0
                   /\ recv_wait' = 0
                   /\ UNCHANGED <<effective_timeout, elapsed>>
              ELSE Finish(Returned(NoMsg, messages', a[1]))
    /\ Restore
    /\ UNCHANGED <<ws, nconn, closed, consec_disc, wait_data, failure, stale>>
    /\ UNCHANGED <<session_vars, call_args, outer_vars>>

\* the receive failed: "except Exception" returns a non-empty list and
\* re-raises when the list is empty
RmRecvFail ==
    /\ pc = "rm_recv"
    /\ \E e \in RecvFailures :
         /\ failure' = e
         /\ Finish(IF keeps_partial(messages)
                     THEN Returned(NoMsg, messages, NoMsg)
                     ELSE Raised(e, "", NoMsg))
    /\ Restore
    /\ UNCHANGED <<consec_disc, messages, data_read, noise_read, wait_data, stale>>
    /\ UNCHANGED <<session_vars, conn_vars, call_args, outer_vars>>

\* ------------------------------------------------------------------ time
InLoop == pc \in {"wait_check", "rm_check"}
Blocked == pc \in {"wait_recv", "rm_recv", "msg_recv"}

\* one tick passes while a call runs.  A blocked recv() does not outlast its
\* timeout; past the deadline the loops see no difference between later times
tick ==
    /\ \/ /\ InLoop
          /\ elapsed <= effective_timeout
          /\ elapsed' = elapsed + 1
          /\ UNCHANGED recv_wait
       \/ /\ Blocked
          /\ recv_wait < recv_timeout
          /\ recv_wait' = recv_wait + 1
          /\ elapsed' = IF pc = "msg_recv" THEN elapsed ELSE elapsed + 1
    /\ UNCHANGED <<raising, consec_disc, pc, effective_timeout, recv_timeout,
                   messages, data_read, noise_read, wait_data, failure, stale, result,
                   req_locals>>
    /\ UNCHANGED <<session_vars, conn_vars, call_args, sock_vars, timeout>>

Tick == tick /\ UNCHANGED outer_vars

\* the steps of a running call
Step ==
    \/ SendRequest
    \/ WaitCheck \/ WaitRecv \/ WaitRecvFail
    \/ MsgRecv \/ MsgRecvFail
    \/ RmCheck \/ RmRecv \/ RmRecvFail

Next ==
    \/ Connect \/ Disconnect \/ Enter \/ Exit \/ AssertFail \/ Catch
    \/ Subscribe \/ Unsubscribe \/ ReceiveMessage \/ ReceiveMessages
    \/ Step \/ Tick

Spec == Init /\ [][Next]_vars

\* Time does not stop (strong fairness: a loop that keeps receiving at one
\* instant does not hold the clock back for ever), and a running call takes
\* its next step.  Nothing obliges the caller to start another call.
FairSpec == Spec /\ SF_vars(Tick) /\ WF_vars(Step)

\* ------------------------------- the programs that drive the session
\* (tests/test_book.py, tests/test_ohlc.py, tests/test_ticker.py,
\* demo_websocket.py, utils/recorder.py).  A program is a sequence of calls on
\* one session inside a with-block; between two of its calls no time passes.

\* w in s, for two strings
contains(s, w) ==
    \E i \in 1..(Len(s) + 1 - Len(w)) : SubSeq(s, i, i + Len(w) - 1) = w

\* 'timeout' in str(e).lower(): the texts of the model have no capital
\* letter inside a word
lower_contains_timeout(text) == contains(text, "timeout") \/ contains(text, "Timeout")

\* an exception the caller has in hand: its type's name and its text
Exc(kind, text) == [kind |-> kind, text |-> text]
NoExc == Exc("none", "")

\* except Exception as e:
\*     if 'timeout' not in str(e).lower() and 'Timeout' not in type(e).__name__:
\*         raise
\* TRUE when the handler ends normally, FALSE when it raises e again
handler_passes(e) ==
    \/ lower_contains_timeout(e.text)
    \/ contains(e.kind, "Timeout")

\* the exception raised inside the try-block of test_empty_symbol_list: the
\* one subscribe raised, or the AssertionError of
\*     assert ack.get("success") is False, "Should reject empty symbol list"
empty_symbol_list_raised ==
    IF raising # "none" THEN Exc(raising, result.text)
    ELSE IF result.ack.success # "false"
           THEN Exc("AssertionError", "Should reject empty symbol list")
           ELSE NoExc

\* the tests that call subscribe with an empty symbol list, and their channel
EmptySymbolListTests == {"test_book.test_empty_symbol_list",
                         "test_ohlc.test_empty_symbol_list"}
\* the ticker tests that put an invalid subscribe request on the connection
\* themselves
DirectSendTests == {"test_ticker.test_invalid_channel_name",
                    "test_ticker.test_empty_symbol_list"}
test_channel(t) ==
    IF t \in {"test_book.test_empty_symbol_list", "test_book_complete_flow"} THEN "book"
    ELSE IF t = "test_ohlc.test_empty_symbol_list" THEN "ohlc"
    ELSE IF t = "test_ticker.test_invalid_channel_name" THEN "invalid_channel_name"
    ELSE "ticker"

\* depth=10 for the book channel, interval=5 for the OHLC channel
test_options(t) ==
    IF test_channel(t) = "book" THEN [k \in {"depth"} |-> "10"]
    ELSE IF test_channel(t) = "ohlc" THEN [k \in {"interval"} |-> "5"]
    ELSE NoOptions

\* the program is at position p, between two calls of the session
At(p) == tpc = p /\ pc = "idle"

test_locals == <<since_start, unexpected_messages, record_count, recorder_messages,
                 ack_file, messages_file>>

recorder_vars == <<record_count, recorder_messages, ack_file, messages_file>>
verify_vars == <<since_start, unexpected_messages>>

\* with KrakenWebSocketClient(url, timeout=default_timeout) as client:
TestEnter ==
    /\ At("start")
    /\ enter_with
    /\ tpc' = "subscribe"
    /\ UNCHANGED <<test, verdict, test_locals, pure_vars>>

\* ack = client.subscribe(channel, [], depth=10)
EmptySymbolListSubscribe ==
    /\ At("subscribe")
    /\ test \in EmptySymbolListTests
    /\ begin_request("subscribe", test_channel(test), <<>>, test_options(test))
    /\ tpc' = "try"
    /\ UNCHANGED <<test, verdict, test_locals, pure_vars>>

\* the rest of the try-statement once subscribe has ended: the assert, and the
\* first except-clause (the second one, for the same class, is never chosen)
EmptySymbolListTry ==
    /\ At("try")
    /\ test \in EmptySymbolListTests
    /\ raising' = IF empty_symbol_list_raised = NoExc
                       \/ handler_passes(empty_symbol_list_raised)
                    THEN "none" ELSE empty_symbol_list_raised.kind
    /\ tpc' = "leave"
    /\ UNCHANGED <<consec_disc, pc, messages, data_read, noise_read, wait_data, failure, stale,
                   result,
                   effective_timeout, elapsed, recv_timeout, recv_wait, req_locals>>
    /\ UNCHANGED <<session_vars, conn_vars, call_args, sock_vars, timeout>>
    /\ UNCHANGED <<test, verdict, test_locals, pure_vars>>

\* client.ws.send(json.dumps(invalid_request)): the request goes out on the
\* connection, no call of the session is made
DirectSend ==
    /\ At("subscribe")
    /\ test \in DirectSendTests
    /\ BagCardinality(pending) < MaxPending
    /\ pending' = pending (+) SetToBag({Request("subscribe", test_channel(test))})
    /\ tpc' = "receive"
    /\ UNCHANGED <<ws, nconn, closed, remote_subs, raising, consec_disc, pc, messages,
                   data_read, noise_read, wait_data, failure, stale, result,
                   effective_timeout, elapsed, recv_timeout, recv_wait, req_locals>>
    /\ UNCHANGED <<session_vars, call_args, sock_vars, timeout>>
    /\ UNCHANGED <<test, verdict, test_locals, pure_vars>>

\* timeout=10 of the one receive, a part of the session's default of 30
DirectTimeout == <<MaxTimeout - 1>>

\* response = client.receive_message(timeout=10)
DirectReceive ==
    /\ At("receive")
    /\ test \in DirectSendTests
    /\ receive_message(DirectTimeout)
    /\ tpc' = "try"
    /\ UNCHANGED <<test, verdict, test_locals, pure_vars>>

\* the asserts on a response that carries method "subscribe":
\*     assert response.get("success") is False
\*     assert "error" in response               (test_invalid_channel_name)
\*     assert response.get("success") is False or "error" in response
\*                                              (the other tests)
direct_assert_holds(t, response) ==
    IF t = "test_ticker.test_invalid_channel_name"
      THEN response.success = "false" /\ response.error # Absent
      ELSE response.success = "false" \/ response.error # Absent

\* the exception raised inside the try-block of a direct-send test: the one
\* receive_message raised, or the AssertionError of a failed assert
direct_send_raised ==
    IF raising # "none" THEN Exc(raising, result.text)
    ELSE IF result.ack.method = "subscribe" /\ ~direct_assert_holds(test, result.ack)
           THEN Exc("AssertionError", "Expected error")
           ELSE NoExc

\* the classes "except Exception" catches: every exception of the model,
\* AssertionError too
ExceptionKinds ==
    {"AssertionError", "ValueError", "RuntimeError", "TimeoutError", "AttributeError",
     "WebSocketTimeoutException"} \cup ReadFailureKinds

\* the rest of the try-statement once receive_message has ended: the asserts,
\* and "except Exception as e: print(...)"
DirectSendTry ==
    /\ At("try")
    /\ test \in DirectSendTests
    /\ raising' = IF direct_send_raised = NoExc
                       \/ direct_send_raised.kind \in ExceptionKinds
                    THEN "none" ELSE direct_send_raised.kind
    /\ tpc' = "leave"
    /\ UNCHANGED <<consec_disc, pc, messages, data_read, noise_read, wait_data, failure, stale,
                   result,
                   effective_timeout, elapsed, recv_timeout, recv_wait, req_locals>>
    /\ UNCHANGED <<session_vars, conn_vars, call_args, sock_vars, timeout>>
    /\ UNCHANGED <<test, verdict, test_locals, pure_vars>>

\* ---- the complete-flow tests and the demo: unsubscribe, then verify silence
\* (what the flows do between subscribe and unsubscribe, reading and checking
\* data messages, is left out: nothing of it is read afterwards)
FlowTests == {"test_ticker_complete_flow", "test_book_complete_flow"}
Demo == "demo_websocket.main"
Flows == FlowTests \cup {Demo}

\* ack = client.subscribe(channel, pairs, ...)
FlowSubscribe ==
    /\ At("subscribe")
    /\ test \in Flows
    /\ begin_request("subscribe", test_channel(test), <<"BTC/USD">>, test_options(test))
    /\ tpc' = "subscribed"
    /\ UNCHANGED <<test, verdict, test_locals, pure_vars>>

\* subscribe has ended.  The tests let every exception leave; the demo
\* returns on a ValueError ("except ValueError ... return")
FlowSubscribed ==
    /\ At("subscribed")
    /\ test \in Flows
    /\ raising' = IF test = Demo /\ raising = "ValueError" THEN "none" ELSE raising
    /\ tpc' = IF raising = "none" THEN "unsubscribe" ELSE "leave"
    /\ UNCHANGED <<consec_disc, pc, messages, data_read, noise_read, wait_data, failure, stale,
                   result,
                   effective_timeout, elapsed, recv_timeout, recv_wait, req_locals>>
    /\ UNCHANGED <<session_vars, conn_vars, call_args, sock_vars, timeout>>
    /\ UNCHANGED <<test, verdict, test_locals, pure_vars>>

\* unsubscribe_ack = client.unsubscribe(channel, pairs)
FlowUnsubscribe ==
    /\ At("unsubscribe")
    /\ test \in Flows
    /\ begin_request("unsubscribe", test_channel(test), <<"BTC/USD">>, NoOptions)
    /\ tpc' = "unsubscribed"
    /\ UNCHANGED <<test, verdict, test_locals, pure_vars>>

\* the asserts of the tests on the acknowledgment of unsubscribe (the demo
\* has none):  assert unsub_ack.get("success") is True
\*             assert unsub_ack.get("method") == "unsubscribe"
\*             assert unsub_result.get("channel") == "ticker"     (ticker only)
unsubscribe_asserts_hold(t, ack) ==
    \/ t = Demo
    \/ /\ ack.success = "true"
       /\ ack.method = "unsubscribe"
       /\ t = "test_ticker_complete_flow" => ack.rchannel = "ticker"

\* unsubscribe has ended: an exception or a failed assert leaves the flow;
\* otherwise the verify step starts:
\*     start_time = time.time();  unexpected_messages = []
FlowUnsubscribed ==
    /\ At("unsubscribed")
    /\ test \in Flows
    /\ raising' = IF raising # "none" THEN raising
                  ELSE IF unsubscribe_asserts_hold(test, result.ack) THEN "none"
                  ELSE "AssertionError"
    /\ tpc' = IF raising' = "none" THEN "verify_check" ELSE "leave"
    /\ since_start' = 0
    /\ unexpected_messages' = <<>>
    /\ UNCHANGED <<consec_disc, pc, messages, data_read, noise_read, wait_data, failure, stale,
                   result,
                   effective_timeout, elapsed, recv_timeout, recv_wait, req_locals>>
    /\ UNCHANGED <<session_vars, conn_vars, call_args, sock_vars, timeout>>
    /\ UNCHANGED <<test, verdict, recorder_vars, pure_vars>>

\* timeout=5 of a receive within the window of 20 (3 within 10)
VerifyTimeout == <<MaxWindow - 1>>

\* while time.time() - start_time < 20
window_open(t) == t < MaxWindow

\* the failure the step reports once the loop has ended: pytest.fail / the
\* failed assert in the tests, the printed line in the demo
verify_raises(t, unexpected) ==
    IF unexpected = <<>> \/ t = Demo THEN "none"
    ELSE IF t = "test_ticker_complete_flow" THEN "Failed" ELSE "AssertionError"

\* top of the verify loop: the window test, then
\*     msg = client.receive_message(timeout=5)
\* or, the window over, the report
VerifyCheck ==
    /\ At("verify_check")
    /\ IF window_open(since_start)
         THEN /\ receive_message(VerifyTimeout)
              /\ tpc' = "verify_recv"
              /\ UNCHANGED verdict
         ELSE /\ raising' = verify_raises(test, unexpected_messages)
              /\ verdict' = IF unexpected_messages = <<>> THEN "none" ELSE "failed"
              /\ tpc' = "leave"
              /\ UNCHANGED <<consec_disc, pc, messages, data_read, noise_read, wait_data,
                             failure, stale, result, effective_timeout, elapsed,
                             recv_timeout, recv_wait, req_locals>>
              /\ UNCHANGED <<session_vars, conn_vars, call_args, sock_vars, timeout>>
    /\ UNCHANGED <<test, test_locals, pure_vars>>

\* a test that counts every message that carries a channel tag
is_tagged(msg, ch) == msg.channel # Absent

\* if msg.get("channel") == "ticker"
is_unexpected(msg, ch) == msg.channel = ch

\* the list after unexpected_messages.append(msg); lists longer than
\* MaxUnexpected are not told apart
append_unexpected(msgs, msg) ==
    IF Len(msgs) < MaxUnexpected THEN Append(msgs, msg) ELSE msgs

\* the receive of the loop body has ended: a message of the channel is
\* appended, and the bare "except: pass" drops whatever was raised
VerifyHandle ==
    /\ At("verify_recv")
    /\ unexpected_messages' =
          IF raising = "none" /\ is_unexpected(result.ack, test_channel(test))
            THEN append_unexpected(unexpected_messages, result.ack)
            ELSE unexpected_messages
    /\ raising' = "none"
    /\ tpc' = "verify_check"
    /\ UNCHANGED <<consec_disc, pc, messages, data_read, noise_read, wait_data, failure, stale,
                   result,
                   effective_timeout, elapsed, recv_timeout, recv_wait, req_locals>>
    /\ UNCHANGED <<session_vars, conn_vars, call_args, sock_vars, timeout>>
    /\ UNCHANGED <<test, verdict, since_start, recorder_vars, pure_vars>>

\* time passes between two receives of the verify loop
VerifyTick ==
    /\ At("verify_check")
    /\ window_open(since_start)
    /\ since_start' = since_start + 1
    /\ UNCHANGED <<client_vars, test, tpc, verdict, unexpected_messages, recorder_vars,
                   pure_vars>>

\* ---- record_messages(channel, pair, count) of utils/recorder.py
Recorder == "record_messages"

\* ack = client.subscribe(channel, [pair], **options)
RecordSubscribe ==
    /\ At("subscribe")
    /\ test = Recorder
    /\ begin_request("subscribe", test_channel(test), <<"BTC/USD">>, NoOptions)
    /\ tpc' = "subscribed"
    /\ UNCHANGED <<test, verdict, test_locals, pure_vars>>

\* subscribe has returned: json.dump(ack, f) into the acknowledgment file,
\* then messages = [].  An exception leaves the with-block
RecordSaveAck ==
    /\ At("subscribed")
    /\ test = Recorder
    /\ IF raising = "none"
         THEN /\ ack_file' = <<result.ack>>
              /\ tpc' = "record_check"
         ELSE /\ tpc' = "leave"
              /\ UNCHANGED ack_file
    /\ recorder_messages' = <<>>
    /\ UNCHANGED <<client_vars, test, verdict, verify_vars, record_count, messages_file,
                   pure_vars>>

\* while msg_count < count: msg = client.receive_message()
\* and, the loop over, json.dump(messages, f) into the messages file
RecordCheck ==
    /\ At("record_check")
    /\ IF Len(recorder_messages) < record_count
         THEN /\ receive_message(<<>>)
              /\ tpc' = "record_recv"
              /\ UNCHANGED messages_file
         ELSE /\ messages_file' = <<recorder_messages>>
              /\ tpc' = "unsubscribe"
              /\ UNCHANGED client_vars
    /\ UNCHANGED <<test, verdict, verify_vars, record_count, recorder_messages, ack_file,
                   pure_vars>>

\* msg.get("event"): no message of the remote carries the key "event"
event(msg) == Absent

\* the two "continue" tests of the loop:
\*     msg.get("event") == "heartbeat",  msg.get("event") == "systemStatus"
recorder_skips(msg) == event(msg) \in {"heartbeat", "systemStatus"}

\* the receive of the loop has ended: the message is skipped or appended;
\* an exception leaves the with-block
RecordHandle ==
    /\ At("record_recv")
    /\ IF raising = "none"
         THEN /\ recorder_messages' = IF recorder_skips(result.ack)
                                        THEN recorder_messages
                                        ELSE Append(recorder_messages, result.ack)
              /\ tpc' = "record_check"
         ELSE /\ tpc' = "leave"
              /\ UNCHANGED recorder_messages
    /\ UNCHANGED <<client_vars, test, verdict, verify_vars, record_count, ack_file,
                   messages_file, pure_vars>>

\* unsubscribe_ack = client.unsubscribe(channel, [pair], **options)
RecordUnsubscribe ==
    /\ At("unsubscribe")
    /\ test = Recorder
    /\ begin_request("unsubscribe", test_channel(test), <<"BTC/USD">>, NoOptions)
    /\ tpc' = "unsubscribed"
    /\ UNCHANGED <<test, verdict, test_locals, pure_vars>>

\* unsubscribe has ended: "return messages", or its exception leaves
RecordReturn ==
    /\ At("unsubscribed")
    /\ test = Recorder
    /\ tpc' = "leave"
    /\ UNCHANGED <<client_vars, test, verdict, test_locals, pure_vars>>

\* how a program ends once its with-block is left: record_messages returns,
\* or "except Exception: sys.exit(1)"; a test passes or fails
leave_verdict(t, exc, v) ==
    IF t = Recorder THEN (IF exc = "none" THEN "returned" ELSE "exit 1")
    ELSE IF exc = "none" /\ v = "none" THEN "passed" ELSE "failed"

\* the with-block ends: __exit__ closes the connection, and the test has
\* passed unless an exception leaves it
TestLeave ==
    /\ At("leave")
    /\ exit_with
    /\ verdict' = leave_verdict(test, raising, verdict)
    /\ tpc' = "done"
    /\ UNCHANGED <<test, test_locals, pure_vars>>

\* time passes while a call of the program runs
TestTick ==
    /\ tick
    /\ since_start' = IF tpc = "verify_recv" THEN since_start + 1 ELSE since_start
    /\ UNCHANGED <<test, tpc, verdict, unexpected_messages, recorder_vars, pure_vars>>

\* the steps of the calls the programs make
TestStep ==
    \/ SendRequest
    \/ WaitCheck \/ WaitRecv \/ WaitRecvFail
    \/ MsgRecv \/ MsgRecvFail

Tests == EmptySymbolListTests \cup DirectSendTests \cup Flows \cup {Recorder}

TestInit ==
    /\ ClientInit
    /\ NoPure
    /\ test \in Tests
    /\ tpc = "start"
    /\ verdict = "none"
    /\ since_start = 0
    /\ unexpected_messages = <<>>
    /\ record_count \in (IF test = Recorder THEN 0..MaxCount ELSE {0})
    /\ recorder_messages = <<>>
    /\ ack_file = NoFile
    /\ messages_file = NoFile

TestNext ==
    \/ TestEnter
    \/ EmptySymbolListSubscribe \/ EmptySymbolListTry
    \/ DirectSend \/ DirectReceive \/ DirectSendTry
    \/ FlowSubscribe \/ FlowSubscribed \/ FlowUnsubscribe \/ FlowUnsubscribed
    \/ VerifyCheck \/ VerifyHandle \/ VerifyTick
    \/ RecordSubscribe \/ RecordSaveAck \/ RecordCheck \/ RecordHandle
    \/ RecordUnsubscribe \/ RecordReturn
    \/ TestLeave
    \/ TestStep \/ TestTick

TestSpec == TestInit /\ [][TestNext]_vars

\* Time does not stop, neither inside a receive nor between two receives, and
\* a program that can take its next step takes it
FairTestSpec ==
    /\ TestSpec
    /\ SF_vars(TestTick) /\ SF_vars(VerifyTick)
    /\ WF_vars(TestStep)
    /\ WF_vars(VerifyCheck) /\ WF_vars(VerifyHandle)

\* ---------------------------------------- the validators (utils/validators.py)
\* prices are numbers that are ordered; the same price may occur twice
Prices == 1..MaxPrice

\* the lists of at most n prices
RECURSIVE PriceLists(_)
PriceLists(n) ==
    IF n = 0 THEN {<<>>}
    ELSE LET shorter == PriceLists(n - 1)
         IN  shorter \cup {Append(l, x) : l \in {k \in shorter : Len(k) = n - 1},
                                            x \in Prices}

\* a check of a candle that forgets to compare the high with the close
validate_ohlc_without_close(open_price, high, low, close) ==
    IF low > open_price THEN Out("ValueError", "-", "Low > Open", 0)
    ELSE IF low > close THEN Out("ValueError", "-", "Low > Close", 0)
    ELSE IF low > high THEN Out("ValueError", "-", "Low > High", 0)
    ELSE IF high < open_price THEN Out("ValueError", "-", "High < Open", 0)
    ELSE Out("return", "True", "", 0)

\* validate_ohlc_relationships: five tests in this order, the first that
\* fires raising ValueError, and True when none fires
validate_ohlc_relationships(open_price, high, low, close) ==
    IF low > open_price THEN Out("ValueError", "-", "Low > Open", 0)
    ELSE IF low > close THEN Out("ValueError", "-", "Low > Close", 0)
    ELSE IF low > high THEN Out("ValueError", "-", "Low > High", 0)
    ELSE IF high < open_price THEN Out("ValueError", "-", "High < Open", 0)
    ELSE IF high < close THEN Out("ValueError", "-", "High < Close", 0)
    ELSE Out("return", "True", "", 0)

\* test_ohlc_data_integrity_constraints, "1. OHLC relationships": the chain of
\* asserts inside one try; the text of the first that fails is the violation
\* recorded, "none" when all hold
ohlc_inline_violation(open_price, high, low, close) ==
    IF ~(low <= open_price) THEN "low > open"
    ELSE IF ~(low <= close) THEN "low > close"
    ELSE IF ~(high >= open_price) THEN "high < open"
    ELSE IF ~(high >= close) THEN "high < close"
    ELSE IF ~(low <= high) THEN "low > high"
    ELSE "none"

\* a check of a price list that takes equal neighbours for a violation
RECURSIVE price_ordering_strict_from(_, _, _)
price_ordering_strict_from(prices, descending, i) ==
    IF i >= Len(prices) THEN Out("return", "True", "", 0)
    ELSE IF descending /\ prices[i + 1] >= prices[i]
      THEN Out("ValueError", "-", "Prices not in descending order", i)
    ELSE IF ~descending /\ prices[i + 1] <= prices[i]
      THEN Out("ValueError", "-", "Prices not in ascending order", i)
    ELSE price_ordering_strict_from(prices, descending, i + 1)

validate_price_ordering_strict(prices, descending) ==
    price_ordering_strict_from(prices, descending, 1)

\* validate_price_ordering, the loop "for i in range(1, len(prices))" from the
\* index i on: prices[i] of the code is prices[i + 1] here
RECURSIVE price_ordering_from(_, _, _)
price_ordering_from(prices, descending, i) ==
    IF i >= Len(prices) THEN Out("return", "True", "", 0)
    ELSE IF descending /\ prices[i + 1] > prices[i]
      THEN Out("ValueError", "-", "Prices not in descending order", i)
    ELSE IF ~descending /\ prices[i + 1] < prices[i]
      THEN Out("ValueError", "-", "Prices not in ascending order", i)
    ELSE price_ordering_from(prices, descending, i + 1)

validate_price_ordering(prices, descending) ==
    price_ordering_from(prices, descending, 1)

\* test_book_data_integrity_constraints, "5. Bid ordering" (descending) and
\* "6. Ask ordering" (ascending): every price strictly beyond its successor
book_inline_ordering_holds(prices, descending) ==
    \A j \in 1..(Len(prices) - 1) :
       IF descending THEN prices[j] > prices[j + 1] ELSE prices[j] < prices[j + 1]

\* ------------------------------ the book checksum (tests/test_book.py)
\* a JSON number as Python holds it: an int, or a float with one decimal
IntNum(n) == [kind |-> "int", whole |-> n, tenth |-> 0]
FloatNum(n, t) == [kind |-> "float", whole |-> n, tenth |-> t]

\* the characters of the decimal digits, digit d at place d + 1
DigitChars == <<"0", "1", "2", "3", "4", "5", "6", "7", "8", "9">>

\* str(n) of a natural number, as a sequence of characters
RECURSIVE digits(_)
digits(n) ==
    IF n < 10 THEN <<DigitChars[n + 1]>>
    ELSE Append(digits(n \div 10), DigitChars[(n % 10) + 1])

\* str(x): an int prints its digits, a float its digits, a point, its decimal
str(x) ==
    IF x.kind = "int" THEN digits(x.whole)
    ELSE digits(x.whole) \o <<".">> \o digits(x.tenth)

\* s.replace('.', '')
replace_point(s) == SelectSeq(s, LAMBDA c : c # ".")

\* the levels of the books the checksum is computed for
LevelArgs ==
    {[price |-> FloatNum(1, 5), qty |-> IntNum(2)],
     [price |-> IntNum(20), qty |-> FloatNum(0, 1)]}

\* the sides of at most n levels
RECURSIVE Sides(_)
Sides(n) ==
    IF n = 0 THEN {<<>>}
    ELSE LET shorter == Sides(n - 1)
         IN  shorter \cup {Append(l, x) : l \in {k \in shorter : Len(k) = n - 1},
                                            x \in LevelArgs}

\* levels[:depth], for a depth that is not negative
top(levels, depth) ==
    SubSeq(levels, 1, IF depth < Len(levels) THEN depth ELSE Len(levels))

\* the two strings a level adds: its price and its quantity without the point
level_parts(level) == replace_point(str(level.price)) \o replace_point(str(level.qty))

\* the loop over range(max(len(top_asks), len(top_bids))) from the index i on
\* (level i of the code is level i + 1 here), its parts joined: the ask of a
\* level before its bid, a side that has run out adding nothing
RECURSIVE checksum_parts_from(_, _, _)
checksum_parts_from(top_asks, top_bids, i) ==
    IF i >= Len(top_asks) /\ i >= Len(top_bids) THEN <<>>
    ELSE (IF i < Len(top_asks) THEN level_parts(top_asks[i + 1]) ELSE <<>>)
           \o (IF i < Len(top_bids) THEN level_parts(top_bids[i + 1]) ELSE <<>>)
           \o checksum_parts_from(top_asks, top_bids, i + 1)

\* checksum_string, the string the checksum is taken of
checksum_string(bids, asks, depth) ==
    checksum_parts_from(top(asks, depth), top(bids, depth), 0)

\* s.encode('utf-8') of a string of digits and points: one byte a character
encode(s) ==
    [k \in 1..Len(s) |->
       IF s[k] = "." THEN 46
       ELSE 47 + (CHOOSE d \in 1..10 : DigitChars[d] = s[k])]

\* a word of 32 bits is kept as its two halves of 16 bits, <<high, low>>:
\* the word is high * 65536 + low
Half == 0..65535
Word == Half \X Half
AllOnes == <<65535, 65535>>

\* 0xEDB88320, the polynomial of CRC-32 in reflected form
Polynomial == <<60856, 33568>>

\* the exclusive or of the n low bits of a and b
RECURSIVE xor_bits(_, _, _)
xor_bits(a, b, n) ==
    IF n = 0 THEN 0
    ELSE ((a + b) % 2) + 2 * xor_bits(a \div 2, b \div 2, n - 1)

xor(a, b) == <<xor_bits(a[1], b[1], 16), xor_bits(a[2], b[2], 16)>>
shift_right(a) == <<a[1] \div 2, (a[2] \div 2) + 32768 * (a[1] % 2)>>

\* the byte b as a word
byte_word(b) == <<0, b>>

\* n rounds of the shift register (the test of the word makes TLC evaluate
\* it at every round, instead of piling the rounds up)
RECURSIVE crc_rounds(_, _)
crc_rounds(crc, n) ==
    IF n = 0 \/ crc \notin Word THEN crc
    ELSE crc_rounds(IF crc[2] % 2 = 1 THEN xor(shift_right(crc), Polynomial)
                                      ELSE shift_right(crc), n - 1)

\* the register after the bytes from place k on
RECURSIVE crc_bytes(_, _, _)
crc_bytes(crc, bytes, k) ==
    IF k > Len(bytes) \/ crc \notin Word THEN crc
    ELSE crc_bytes(crc_rounds(xor(crc, byte_word(bytes[k])), 8), bytes, k + 1)

\* zlib.crc32(data): CRC-32 of the bytes, an unsigned word of 32 bits
crc32(bytes) == xor(crc_bytes(AllOnes, bytes, 1), AllOnes)

\* crc & 0xFFFFFFFF: the low 32 bits
mask32(w) == <<w[1] % 65536, w[2] % 65536>>

\* a checksum over every level given, whatever the depth
calculate_book_checksum_all_levels(bids, asks, depth) ==
    Out("return",
        mask32(crc32(encode(checksum_string(bids, asks, Len(bids) + Len(asks))))), "", 0)

\* calculate_book_checksum(bids, asks, depth)
calculate_book_checksum(bids, asks, depth) ==
    Out("return", mask32(crc32(encode(checksum_string(bids, asks, depth)))), "", 0)

\* ------------------------------------------- the helper functions on their own
\* the function fn is applied to the arguments arg
Applied(f) == fn = f /\ out # NoOut

PureInit ==
    /\ ClientInit
    /\ NoHarness
    /\ out = NoOut
    /\ \/ /\ fn = "validate_ohlc_relationships"
          /\ arg \in Prices \X Prices \X Prices \X Prices
       \/ /\ fn = "validate_price_ordering"
          /\ arg \in PriceLists(MaxLen) \X BOOLEAN
       \/ /\ fn = "calculate_book_checksum"
          /\ arg \in Sides(MaxLevels) \X Sides(MaxLevels) \X (0..MaxLevels)

ValidateOhlcRelationships ==
    /\ fn = "validate_ohlc_relationships"
    /\ out = NoOut
    /\ out' = validate_ohlc_relationships(arg[1], arg[2], arg[3], arg[4])
    /\ UNCHANGED <<fn, arg, client_vars, harness_vars>>

ValidatePriceOrdering ==
    /\ fn = "validate_price_ordering"
    /\ out = NoOut
    /\ out' = validate_price_ordering(arg[1], arg[2])
    /\ UNCHANGED <<fn, arg, client_vars, harness_vars>>

CalculateBookChecksum ==
    /\ fn = "calculate_book_checksum"
    /\ out = NoOut
    /\ out' = calculate_book_checksum(arg[1], arg[2], arg[3])
    /\ UNCHANGED <<fn, arg, client_vars, harness_vars>>

PureNext == ValidateOhlcRelationships \/ ValidatePriceOrdering \/ CalculateBookChecksum

PureSpec == PureInit /\ [][PureNext]_vars

\* ======================================================== the claims
\* the call o has ended
Ended(o) == pc = "idle" /\ op = o /\ result.kind # "none"

TimeoutKinds == {"TimeoutError", "WebSocketTimeoutException"}

\* C1: subscribe returns only an acknowledgment whose success flag is true.
\* When the subscribe-tagged message that ends the call has a false or missing
\* success flag, subscribe raises ValueError, returns no value, and the text
\* is "Subscription failed: " followed by the acknowledgment's error field,
\* or by "Unknown error" when there is no such field.
C1_RejectionSurfaced ==
    Ended("subscribe") =>
      /\ result.kind = "return" =>
           /\ result.ack = result.on
           /\ result.ack.method = "subscribe"
           /\ result.ack.success = "true"
      /\ (result.on # NoMsg /\ result.on.success # "true") =>
           /\ result.kind = "ValueError"
           /\ result.ack = NoMsg
           /\ result.on.method = "subscribe"
           /\ result.text =
                "Subscription failed: "
                  \o (IF result.on.error = Absent THEN "Unknown error"
                                                 ELSE result.on.error)

\* a subscribe was rejected with the remote's error text, and another on an
\* acknowledgment without a success flag
C1_Witness ==
    /\ Ended("subscribe")
    /\ result.kind = "ValueError"
    /\ \/ result.on.error \in Errors
       \/ result.on.success = Absent

\* C2: unsubscribe raises the rejection error when its acknowledgment has
\* success=false, and does not return that acknowledgment.
C2_UnsubscribeRejects ==
    (Ended("unsubscribe") /\ result.on # NoMsg /\ result.on.success = "false") =>
      /\ result.kind = "ValueError"
      /\ result.ack = NoMsg

\* C3: receive_messages that ends with k collected messages, 0 < k < count,
\* returns exactly those k messages and does not raise, wherever in the loop
\* the deadline is found to have elapsed.
C3_PartialAlwaysReturned ==
    (Ended("receive_messages") /\ 0 < Len(messages) /\ Len(messages) < count) =>
      /\ result.kind = "return"
      /\ result.list = messages

\* C4: no element of the list receive_messages builds and returns has channel
\* "heartbeat" or "status", or a method tag "subscribe" or "unsubscribe".
C4_OnlyDataReturned ==
    op = "receive_messages" =>
      \A l \in {messages, result.list} :
        \A i \in 1..Len(l) :
          /\ l[i].channel \notin {"heartbeat", "status"}
          /\ l[i].method \notin Methods

\* receive_messages returned a full list although it also read messages that
\* are no data messages
C4_Witness ==
    /\ Ended("receive_messages")
    /\ result.kind = "return"
    /\ Len(result.list) = MaxCount
    /\ noise_read

\* C5: receive_messages(count >= 1) always terminates; it is never blocked in
\* a receive past its deadline; and when it has read no data message, on a
\* silent connection or one that delivers only heartbeat, status and
\* acknowledgment messages, it ends with a timeout error and returns nothing.
C5_TimeoutFloor ==
    /\ [](pc \in {"rm_check", "rm_recv"} => <>(pc = "idle"))
    /\ [](pc = "rm_recv" => elapsed <= effective_timeout)
    /\ []((/\ Ended("receive_messages")
           /\ count >= 1
           /\ data_read = <<>>
           /\ result.kind \notin ReadFailureKinds \cup {"RuntimeError"})
            => (result.kind \in TimeoutKinds /\ result.list = <<>>))

\* receive_messages hit its deadline while only other messages kept arriving
C5_Witness ==
    /\ Ended("receive_messages")
    /\ result.kind = "TimeoutError"
    /\ data_read = <<>>
    /\ noise_read

\* C6: subscribe and unsubscribe that see no matching method response end with
\* TimeoutError, the same error kind on a silent connection and on one that
\* delivers other messages; they never wait past the deadline and never return
\* a message of another method.
C6_OneTimeoutKind ==
    /\ pc = "wait_recv" => elapsed <= effective_timeout
    /\ \A o \in Methods :
         Ended(o) =>
           /\ result.kind = "return" => result.ack.method = o
           /\ (result.on = NoMsg
                 /\ result.kind \notin ReadFailureKinds \cup {"RuntimeError"})
                => result.kind = "TimeoutError"

\* C7: the value returned by a subscribe that had no earlier subscribe request
\* outstanding has method "subscribe" and echoes the requested channel,
\* whatever else was received before it.
C7_AckEchoesChannel ==
    (Ended("subscribe") /\ result.kind = "return" /\ ~stale) =>
      /\ result.ack.method = "subscribe"
      /\ result.ack.rchannel = channel

\* subscribe returned its acknowledgment after reading other messages first
C7_Witness ==
    /\ Ended("subscribe")
    /\ result.kind = "return"
    /\ ~stale
    /\ noise_read

\* C8: when a with-block ends, normally or by an exception, the session's
\* connection is closed, the session holds no connection, and the exception
\* that ended the block keeps propagating.
C8_ExitReleases ==
    [][(in_with /\ ~in_with') =>
         /\ ws' = 0
         /\ ws # 0 => closed'[ws] = closed[ws] + 1
         /\ raising' = raising]_vars

\* a with-block was ended by a rejected subscribe: released, and still raising
C8_Witness ==
    /\ op = "__exit__"
    /\ ~in_with
    /\ raising = "ValueError"
    /\ ws = 0
    /\ closed[nconn] = 1

\* C9: disconnect on a session without a connection changes nothing and raises
\* nothing; disconnect on a connected session closes the connection once and
\* forgets it; no connection is ever closed twice.
C9_DisconnectIdempotent ==
    [][(consec_disc' = consec_disc + 1) =>
         /\ raising' = "none"
         /\ \A c \in 1..nconn : closed'[c] <= 1
         /\ ws = 0 => UNCHANGED <<ws, nconn, closed, pending, in_with, self_timeout>>
         /\ ws # 0 => (ws' = 0 /\ closed'[ws] = 1)]_vars

\* disconnect was called twice in a row on a session that had connected
C9_Witness ==
    /\ consec_disc = 2
    /\ nconn >= 1
    /\ closed[nconn] = 1
    /\ ws = 0

\* C10: the list receive_messages collects is, at every moment, the data
\* messages it has read, in the order read; it reads on only while it holds
\* fewer than count, and with count of them it returns exactly those, the call
\* ending on the receipt of the last one.
C10_FirstNInOrder ==
    op = "receive_messages" =>
      /\ messages = data_read
      /\ pc # "idle" => Len(data_read) < count
      /\ (Ended("receive_messages") /\ Len(data_read) >= count) =>
           /\ result.kind = "return"
           /\ result.list = data_read
           /\ Len(result.list) = count
           /\ count >= 1 => result.on = data_read[count]

\* two different data messages were returned in the order read, other
\* messages having been skipped
C10_Witness ==
    /\ Ended("receive_messages")
    /\ result.kind = "return"
    /\ Len(result.list) = 2
    /\ count = 2
    /\ result.list[1] # result.list[2]
    /\ noise_read

\* C11: receive_message hands out the next message the connection delivers,
\* whatever its class: the value returned is the message received, exactly
\* that message is taken from the inbound stream, and a received message is
\* never withheld; with no message received the call raises, and it is never
\* blocked longer than its timeout.
C11_NextMessageUnfiltered ==
    /\ [](pc = "msg_recv" => recv_wait <= recv_timeout)
    /\ [](Ended("receive_message") =>
            /\ result.on # NoMsg =>
                 (result.kind = "return" /\ result.ack = result.on)
            /\ result.on = NoMsg =>
                 result.kind \in ReadFailureKinds
                                  \cup {"RuntimeError", "WebSocketTimeoutException"})
    /\ [][(pc = "msg_recv" /\ pc' = "idle" /\ result'.on # NoMsg) =>
            <<result'.on, pending', remote_subs'>> \in Arrivals]_vars

\* receive_message returned the acknowledgment of an earlier request that had
\* timed out
C11_Witness ==
    /\ Ended("receive_message")
    /\ result.kind = "return"
    /\ result.ack.method \in Methods
    /\ result.ack.success = "false"

\* C12: the request subscribe and unsubscribe hand to the connection has the
\* call's method, and its params are the channel, the symbol list and every
\* option key with the value given, and nothing else: no argument is checked,
\* defaulted or dropped.
C12_RequestPassedThrough ==
    /\ [](pc = "send" =>
            /\ request.method = op
            /\ op \in Methods
            /\ DOMAIN request.params = {"channel", "symbol"} \cup DOMAIN options
            /\ request.params["channel"] = channel
            /\ request.params["symbol"] = symbol
            /\ \A k \in DOMAIN options : request.params[k] = options[k])
    /\ [][(pc = "send" /\ pc' # "send") =>
            pending' = pending (+) SetToBag({[method |-> op, channel |-> channel]})]_vars

\* an unsubscribe is about to go out with an empty channel name, an empty
\* symbol list and an option whose value is None
C12_Witness ==
    /\ op = "unsubscribe"
    /\ pc = "send"
    /\ channel = ""
    /\ symbol = <<>>
    /\ "depth" \in DOMAIN options
    /\ options["depth"] = "None"
    /\ request.params["depth"] = "None"

\* C13: a subscribe or unsubscribe call on a connected session goes to its
\* send first, having read nothing; the send puts exactly one request on the
\* connection; no other step of any call puts a request there; and the call
\* never comes back to the send, however it ends.
C13_OneRequestPerCall ==
    /\ [](pc = "send" => (op \in Methods /\ ~noise_read /\ result = NoResult))
    /\ [][(pc = "idle" /\ pc' # "idle" /\ op' \in Methods) =>
            (pc' = "send" /\ pending' = pending)]_vars
    /\ [][(pc = "send" /\ pc' # "send") =>
            /\ pc' = "wait_check"
            /\ BagCardinality(pending') = BagCardinality(pending) + 1]_vars
    /\ [][BagCardinality(pending') > BagCardinality(pending) => pc = "send"]_vars
    /\ [][pc' = "send" => pc \in {"idle", "send"}]_vars
    /\ [][(op \in Methods /\ pc # "idle" /\ pending' # pending /\ pc # "send") =>
            pc = "wait_recv"]_vars

\* a subscribe timed out at its deadline after reading other messages: its
\* one request is still the only one on the connection
C13_Witness ==
    /\ Ended("subscribe")
    /\ result.kind = "TimeoutError"
    /\ noise_read
    /\ pending = SetToBag({[method |-> "subscribe", channel |-> channel]})

\* C14: when a receive of subscribe, unsubscribe, receive_message or
\* receive_messages fails with something other than a timeout (a payload that
\* is not JSON, a cut connection), the call ends by raising that failure,
\* whatever it had collected before.
C14_ReadFailurePropagates ==
    (pc = "idle" /\ failure \in ReadFailureKinds) =>
      /\ result.kind = failure
      /\ result.list = <<>>

\* C15: when unsubscribe(channel), with no earlier unsubscribe outstanding,
\* has returned an acknowledgment with success=true, the remote no longer
\* streams the channel; the stream starts again only by the answer to an
\* outstanding subscribe request; and every data message a call reads, or
\* hands to the caller, is of a channel streamed when it was read.  So after
\* the flow subscribe, data, unsubscribe no data message of the channel is
\* received until the caller subscribes again; those read before the
\* acknowledgment are consumed inside unsubscribe.
C15_NoDataAfterUnsubscribe ==
    /\ []((/\ Ended("unsubscribe")
           /\ result.kind = "return"
           /\ result.ack.success = "true"
           /\ ~stale)
            => channel \notin remote_subs)
    /\ [][(remote_subs' \ remote_subs # {}) =>
            \E r \in BagToSet(pending) :
              /\ r.method = "subscribe"
              /\ remote_subs' = remote_subs \cup {r.channel}
              /\ pending' = pending (-) SetToBag({r})]_vars
    /\ [][/\ ((data_read' # data_read /\ data_read' # <<>>) =>
                data_read'[Len(data_read')].channel \in remote_subs)
           /\ ((pc = "msg_recv" /\ result'.on \in DataMsgs) =>
                result'.on.channel \in remote_subs)
           /\ ((wait_data' /\ ~wait_data) => remote_subs # {})]_vars

\* unsubscribe returned its acknowledgment after consuming a data message of
\* the channel, and the channel's stream has stopped
C15_Witness ==
    /\ Ended("unsubscribe")
    /\ result.kind = "return"
    /\ result.ack.success = "true"
    /\ ~stale
    /\ channel = "ticker"
    /\ wait_data
    /\ remote_subs = {}
    /\ pending = EmptyBag

\* C16: a data message that subscribe or unsubscribe reads while it waits for
\* its acknowledgment is kept in the session's buffer (from which a later
\* receive would hand it to the caller).
C16_WaitKeepsData ==
    (op \in Methods /\ wait_data) => self_messages # <<>>

\* C17: a connect on a session that holds a connection opens another one and
\* leaves the first open; a connection the session no longer refers to is
\* never closed; and a disconnect closes the connection the session holds,
\* once, and no other.
C17_ConnectTwiceLeaks ==
    /\ [](ws # 0 => closed[ws] = 0)
    /\ [][(ws # 0 /\ ws' # 0 /\ closed' # closed) =>
            /\ ws' # ws
            /\ closed'[ws] = 0
            /\ closed'[ws'] = 0]_vars
    /\ [][\A c \in 1..nconn : (c # ws /\ closed[c] = 0) => closed'[c] = 0]_vars
    /\ [][(ws # 0 /\ ws' = 0) =>
            /\ closed'[ws] = 1
            /\ \A c \in 1..nconn : c # ws => closed'[c] = closed[c]]_vars

\* connect was called twice and then disconnect: the first connection is
\* still open and the session holds none
C17_Witness ==
    /\ op = "disconnect"
    /\ ws = 0
    /\ nconn = 2
    /\ closed = <<0, 1>>

\* C18: subscribe, unsubscribe and receive_message on a session without a
\* connection raise RuntimeError("Not connected. Call connect() first.") and
\* change nothing of the session, of the connections or of what is on the
\* wire; on a session that holds a connection they never raise it; and a
\* session that has disconnected can connect and be used again.
C18_NotConnected ==
    /\ [][(/\ pc = "idle"
            /\ op' \in Methods \cup {"receive_message"}
            /\ <<pc, op, channel, result>>' # <<pc, op, channel, result>>
            /\ raising = "none"
            /\ ws = 0)
             => /\ pc' = "idle"
                /\ result'.kind = "RuntimeError"
                /\ result'.text = "Not connected. Call connect() first."
                /\ raising' = "RuntimeError"
                /\ UNCHANGED <<ws, nconn, closed, pending, remote_subs,
                               self_timeout, self_messages, in_with>>]_vars
    /\ [](\A o \in Methods \cup {"receive_message"} :
            (Ended(o) /\ result.kind = "RuntimeError") => ws = 0)
    /\ []((op \in Methods \cup {"receive_message"} /\ pc # "idle") => ws # 0)
    /\ [][(ws = 0 /\ ws' # 0) =>
            /\ closed'[ws'] = 0
            /\ pending' = EmptyBag
            /\ remote_subs' = {}]_vars

\* unsubscribe was called on a session that had connected and disconnected
C18_Witness ==
    /\ Ended("unsubscribe")
    /\ result.kind = "RuntimeError"
    /\ ws = 0
    /\ nconn = 1
    /\ closed = <<1>>

\* C19 as claimed: the acknowledgment on which a subscribe or unsubscribe call
\* returns, or is rejected, is the remote's answer to the request that call
\* sent, whatever earlier calls have left unanswered.
C19_AckAnswersOwnRequest ==
    [][(pc = "wait_recv" /\ pc' = "idle" /\ result'.on # NoMsg) =>
         pending' = pending (-) SetToBag({Request(op, channel)})]_vars

\* C19 as amended: a call that sent its request when no earlier request of
\* the same method was unanswered has, while it waits, exactly its own request
\* of that method outstanding, and the acknowledgment on which it returns or
\* is rejected is an answer to that request, requests of the other method
\* being left alone.
C19_AckAnswersOwnRequestIfAlone ==
    /\ []((pc \in {"wait_check", "wait_recv"} /\ ~stale) =>
            \A r \in BagToSet(pending) :
              r.method = op => (r = Request(op, channel) /\ CopiesIn(r, pending) = 1))
    /\ [][(pc = "wait_recv" /\ pc' = "idle" /\ result'.on # NoMsg /\ ~stale) =>
            /\ pending' = pending (-) SetToBag({Request(op, channel)})
            /\ result'.on \in AcksFor(Request(op, channel))
            /\ \A r \in BagToSet(pending') : r.method # op]_vars

\* a subscribe was acknowledged while the request of an unsubscribe that had
\* timed out was still unanswered
C19_Witness ==
    /\ Ended("subscribe")
    /\ result.kind = "return"
    /\ ~stale
    /\ channel = "ticker"
    /\ pending = SetToBag({Request("unsubscribe", "")})

\* C20: every inbound message, whatever its method tag and its channel tag,
\* is treated by the session as of exactly one of the classes
\* heartbeat/status, acknowledgment and data.
C20_OneClassPerMessage ==
    \A msg \in TaggedMsgs : Cardinality(classes(msg)) = 1

\* C21: inside subscribe, unsubscribe and receive_messages the wait allowed
\* for a receive is the deadline minus the time elapsed when the receive was
\* started: it is at most the deadline and never negative; the deadline stays
\* and the clock does not go back while the call runs, so the wait does not
\* grow from one iteration to the next; and a receive is started, and goes on,
\* only while the elapsed time does not exceed the deadline.
C21_WaitIsRemainingTime ==
    /\ [](pc \in {"wait_recv", "rm_recv"} =>
            /\ recv_wait <= elapsed
            /\ recv_timeout + (elapsed - recv_wait) = effective_timeout
            /\ recv_timeout >= 0
            /\ recv_timeout <= effective_timeout
            /\ elapsed <= effective_timeout)
    /\ [][(pc \in {"wait_check", "rm_check"} /\ pc' \in {"wait_recv", "rm_recv"}) =>
            /\ elapsed <= effective_timeout
            /\ recv_timeout' + elapsed = effective_timeout]_vars
    /\ [][(pc \in {"wait_check", "wait_recv", "rm_check", "rm_recv"} /\ pc' # "idle") =>
            /\ effective_timeout' = effective_timeout
            /\ elapsed' >= elapsed]_vars

\* receive_messages starts a later receive of its loop with less than the
\* whole deadline left, time having passed since the call started
C21_Witness ==
    /\ pc = "rm_recv"
    /\ noise_read
    /\ recv_wait = 0
    /\ effective_timeout = MaxTimeout
    /\ recv_timeout > 0
    /\ recv_timeout < effective_timeout

\* C22: receive_message leaves the connection's timeout as it found it: when
\* receive_message, subscribe, unsubscribe or receive_messages has ended, by a
\* return, a timeout, a payload that is not JSON or any other failure, the
\* connection's timeout is what it was when the call started, whatever
\* timeout the call ran its receives under; and it is that value between the
\* receives of a loop too.
C22_ConnectionTimeoutKept ==
    /\ [][(/\ pc = "idle"
            /\ op' \in Methods \cup {"receive_message", "receive_messages"}
            /\ <<pc, op, channel, result>>' # <<pc, op, channel, result>>
            /\ raising = "none")
             => timeout_before' = sock_timeout]_vars
    /\ [](\A o \in Methods \cup {"receive_message", "receive_messages"} :
            Ended(o) => sock_timeout = timeout_before)
    /\ [](pc \in {"send", "wait_check", "rm_check"} => sock_timeout = timeout_before)
    /\ [](pc \in {"wait_recv", "rm_recv", "msg_recv"} =>
            (original_timeout = timeout_before /\ sock_timeout = recv_timeout))

\* a receive_message on a connected session ended on a payload that is not
\* JSON, and the connection has the timeout it was created with
C22_Witness ==
    /\ Ended("receive_message")
    /\ failure = "JSONDecodeError"
    /\ ws # 0
    /\ timeout_before = MaxTimeout
    /\ sock_timeout = MaxTimeout

\* C23: the deadline of receive_messages(count, timeout) is the timeout
\* argument when that is a number other than 0 and self.timeout when it is
\* None or 0, and so is the deadline of the acknowledgment wait, which
\* subscribe and unsubscribe start without a timeout argument;
\* receive_message(timeout) runs its receive under the argument when that is
\* a number, 0 included, and under the connection's own timeout only when it
\* is None.
C23_ZeroTimeoutMeansDefault ==
    /\ [][(pc = "idle" /\ pc' = "rm_check") =>
            effective_timeout' = IF timeout' = <<>> THEN self_timeout
                                 ELSE IF timeout'[1] = 0 THEN self_timeout
                                 ELSE timeout'[1]]_vars
    /\ [][(pc = "send" /\ pc' = "wait_check") =>
            (timeout = <<>> /\ effective_timeout' = self_timeout)]_vars
    /\ [](pc = "msg_recv" =>
            /\ recv_timeout = sock_timeout
            /\ sock_timeout = IF timeout = <<>> THEN original_timeout ELSE timeout[1])

\* receive_messages(timeout=0) runs under the session's default timeout
C23_Witness ==
    /\ pc = "rm_check"
    /\ timeout = <<0>>
    /\ self_timeout > 0
    /\ effective_timeout = self_timeout
    /\ elapsed = 1

\* C24: validate_ohlc_relationships(open, high, low, close) returns True
\* exactly when low <= open, low <= close, low <= high, high >= open and
\* high >= close all hold, and raises ValueError otherwise; it accepts exactly
\* the candles for which the OHLC relationship check of the data-integrity
\* test records no violation.
C24_OhlcValidatorMatchesTest ==
    Applied("validate_ohlc_relationships") =>
      LET open_price == arg[1]
          high == arg[2]
          low == arg[3]
          close == arg[4]
          valid == /\ low <= open_price
                   /\ low <= close
                   /\ low <= high
                   /\ high >= open_price
                   /\ high >= close
      IN  /\ out.kind \in {"return", "ValueError"}
          /\ out.kind = "return" <=> valid
          /\ out.kind = "return" => out.value = "True"
          /\ out.kind = "return" <=>
               ohlc_inline_violation(open_price, high, low, close) = "none"

\* a candle whose close is above its high, every other relation holding, was
\* rejected
C24_Witness ==
    /\ Applied("validate_ohlc_relationships")
    /\ out.kind = "ValueError"
    /\ arg[3] <= arg[1]
    /\ arg[1] <= arg[2]
    /\ arg[3] <= arg[4]
    /\ arg[4] > arg[2]

\* C25: validate_price_ordering(prices, descending) returns True exactly when
\* no price is above its predecessor (descending) or below it (ascending):
\* equal neighbours, the empty list and a list of one price are accepted;
\* every other list raises ValueError naming the first index out of order.
\* The ordering check of the book data-integrity test is strict: what it
\* accepts the validator accepts, and a list with two equal neighbours is
\* rejected by it even when the validator accepts the list.
C25_PriceOrderingNonStrict ==
    Applied("validate_price_ordering") =>
      LET prices == arg[1]
          descending == arg[2]
          \* the indices of the code that are out of order
          bad == {i \in 1..(Len(prices) - 1) :
                    IF descending THEN prices[i + 1] > prices[i]
                                  ELSE prices[i + 1] < prices[i]}
          equal == \E i \in 1..(Len(prices) - 1) : prices[i + 1] = prices[i]
      IN  /\ out.kind \in {"return", "ValueError"}
          /\ out.kind = "return" <=> bad = {}
          /\ out.kind = "return" => out.value = "True"
          /\ Len(prices) <= 1 => out.kind = "return"
          /\ out.kind = "ValueError" =>
               (out.at \in bad /\ \A i \in bad : out.at <= i)
          /\ book_inline_ordering_holds(prices, descending) => out.kind = "return"
          /\ equal => ~book_inline_ordering_holds(prices, descending)

\* a descending list with two equal neighbours was accepted, which the strict
\* check of the book test rejects
C25_Witness ==
    /\ Applied("validate_price_ordering")
    /\ arg[2]
    /\ Len(arg[1]) = 3
    /\ arg[1][1] = arg[1][2]
    /\ arg[1][2] > arg[1][3]
    /\ out.kind = "return"
    /\ ~book_inline_ordering_holds(arg[1], arg[2])

\* the string of the levels from index i on, as the format has it: for each
\* level the ask's price and quantity, then the bid's, points removed
RECURSIVE LevelsString(_, _, _)
LevelsString(asks, bids, i) ==
    IF i > Len(asks) /\ i > Len(bids) THEN <<>>
    ELSE (IF i <= Len(asks)
            THEN SelectSeq(str(asks[i].price) \o str(asks[i].qty), LAMBDA c : c # ".")
            ELSE <<>>)
         \o (IF i <= Len(bids)
               THEN SelectSeq(str(bids[i].price) \o str(bids[i].qty), LAMBDA c : c # ".")
               ELSE <<>>)
         \o LevelsString(asks, bids, i + 1)

\* the first n entries of a list
FirstN(l, n) == [k \in 1..(IF n < Len(l) THEN n ELSE Len(l)) |-> l[k]]

C27_EmptySymbolListOutcomes ==
    [][(At("leave") /\ test \in EmptySymbolListTests /\ tpc' = "done") =>
         /\ (result.kind = "ValueError" /\ result.on.success = "false")
               => verdict' = "passed"
         /\ result.kind \in TimeoutKinds => verdict' = "passed"
         /\ verdict' = "failed"
               => (result.kind = "return" /\ result.on.success = "true")]_vars

\* C28 (as claimed): a ticker test that sends an invalid subscribe request
\* itself fails when the remote acknowledges that request with success true
\* and no error field.  The code does otherwise: even when that acknowledgment
\* is the message the test reads, the AssertionError is caught by the test's
\* own "except Exception" and the test passes.
C28_AcceptedInvalidRequestFails ==
    [][(At("leave") /\ test \in DirectSendTests /\ tpc' = "done"
          /\ result.kind = "return"
          /\ result.on.method = "subscribe"
          /\ result.on.success = "true"
          /\ result.on.error = Absent)
         => verdict' = "failed"]_vars

\* the program is in the verify step that follows unsubscribe
InVerify == tpc \in {"verify_check", "verify_recv"}

\* the receive of the verify loop has ended and the loop body deals with it
VerifyReceived == At("verify_recv") /\ tpc' = "verify_check"

\* C29 (as claimed): the verify step reports a failure exactly when a message
\* tagged with the unsubscribed channel is received during the verification
\* window.  Stated for the first message that counts: it is received before
\* the window has elapsed.  The code does otherwise: a receive started within
\* the window may deliver its message after the window's end, and that
\* message counts.
C29_CountedWithinWindow ==
    [][(VerifyReceived /\ unexpected_messages = <<>> /\ unexpected_messages' # <<>>)
         => window_open(since_start)]_vars

\* C29 (amended): the verify step reports a failure exactly when a message
\* tagged with the unsubscribed channel is received by one of the receives
\* of its loop, each of which starts within the window (and may end up to one
\* receive timeout after it).  A heartbeat, a status message, an
\* acknowledgment, a receive timeout or any other failed receive leaves the
\* list of unexpected messages as it is; and the step ends, at the latest one
\* receive timeout after the window's end.
C29_SilenceVerdict ==
    /\ [][VerifyReceived =>
            /\ (result.kind = "return" /\ result.on.channel = test_channel(test))
                  => /\ unexpected_messages' # <<>>
                     /\ Len(unexpected_messages') >= Len(unexpected_messages)
            /\ ~(result.kind = "return" /\ result.on.channel = test_channel(test))
                  => unexpected_messages' = unexpected_messages
            /\ (\/ result.kind # "return"
                \/ result.on \in {Heartbeat, Status}
                \/ result.on.method # Absent)
                  => unexpected_messages' = unexpected_messages
            /\ raising' = "none"]_vars
    /\ [][(tpc = "verify_check" /\ tpc' = "verify_recv") => window_open(since_start)]_vars
    /\ [][(tpc = "verify_check" /\ tpc' = "leave") =>
            /\ ~window_open(since_start)
            /\ verdict' = "failed" <=> unexpected_messages # <<>>
            /\ test \in FlowTests => (raising' # "none" <=> unexpected_messages # <<>>)
            /\ test = Demo => raising' = "none"]_vars
    /\ [](InVerify => since_start <= MaxWindow + VerifyTimeout[1])
    /\ \A a \in UNION {AcksFor(Request(m, c)) : m \in Methods, c \in Channels} :
         \A c \in Channels : ~is_unexpected(a, c)
    /\ InVerify ~> ~InVerify

\* the demo has reported that messages of the channel still arrived, after a
\* window in which the remote went on streaming
C29_Witness ==
    /\ tpc = "leave"
    /\ verdict = "failed"
    /\ Len(unexpected_messages) = MaxUnexpected
    /\ unexpected_messages[1] \in DataMsgs
    /\ ~window_open(since_start)

\* the request record_messages' unsubscribe puts on the wire
RecorderUnsubscribeRequest == Request("unsubscribe", test_channel(Recorder))

\* C30 (as claimed): record_messages subscribes, runs its receive loop and
\* unsubscribes in that order.  The acknowledgment is saved before a message
\* is received; messages are appended in the order they arrive; the saved list
\* holds exactly count messages, none of them a heartbeat or a status message;
\* unsubscribe is sent only after the list has been saved; and on any error
\* the connection is closed and the exit status is 1.  The code does
\* otherwise in one point: its skip tests read the key "event", which no
\* message carries, so heartbeat and status messages are saved.
C30_RecorderOrder ==
    /\ [][(test = Recorder /\ pc = "msg_recv" /\ pc' = "idle") => ack_file # NoFile]_vars
    /\ [][(test = Recorder /\ At("record_recv") /\ recorder_messages' # recorder_messages)
            => recorder_messages' = Append(recorder_messages, result.on)]_vars
    /\ [](messages_file # NoFile =>
            /\ Len(messages_file[1]) = record_count
            /\ \A i \in 1..Len(messages_file[1]) :
                 messages_file[1][i] \notin {Heartbeat, Status})
    /\ [][(test = Recorder /\ BagIn(RecorderUnsubscribeRequest, pending'))
            => messages_file # NoFile]_vars
    /\ [](test = Recorder /\ tpc = "done" =>
            /\ ws = 0
            /\ raising # "none" <=> verdict = "exit 1")

====
